---- MODULE Spec2Model ----
(***************************************************************************)
(* The HD44780 driver of src/src/lib.rs (struct Display over a Hardware +  *)
(* Delay object) driven by the recording hardware of src/tests/util/mod.rs *)
(* (BufferHardware).  Every Hardware call appends one event to             *)
(* hw.commands; a public operation of Display is one action that appends   *)
(* the whole event sequence of that call.                                  *)
(*                                                                         *)
(* Events are pairs <<kind, value>> with the kinds BufferHardware writes:  *)
(*   <<"R/S", bit>>  <<"EN", bit>>  <<"DATA", byte>>  <<"DELAY", usec>>    *)
(*   <<"RW", bit>>   <<"IS BUSY?">>                                        *)
(***************************************************************************)
EXTENDS Integers, Sequences, FiniteSets, TLC

VARIABLES
    hw,         \* the BufferHardware owned by the Display: commands, input, mode
    panicked,   \* the calling thread has aborted (panic!)
    call,       \* the public operation called last: name, arguments, where its
                \* events start in hw.commands, the input it found, the bytes it
                \* handed to send
    nops,       \* number of public operations called so far
    ended       \* the caller's run is over: it calls nothing more

vars == <<hw, panicked, call, nops, ended>>

(***************************************************************************)
(* u8 arithmetic                                                           *)
(***************************************************************************)
Byte == 0..255

RECURSIVE BitOr(_, _)
BitOr(a, b) ==
    IF a = 0 THEN b
    ELSE IF b = 0 THEN a
    ELSE (IF a % 2 = 1 \/ b % 2 = 1 THEN 1 ELSE 0) + 2 * BitOr(a \div 2, b \div 2)

RECURSIVE BitAnd(_, _)
BitAnd(a, b) ==
    IF a = 0 \/ b = 0 THEN 0
    ELSE (IF a % 2 = 1 /\ b % 2 = 1 THEN 1 ELSE 0) + 2 * BitAnd(a \div 2, b \div 2)

\* u8 << n : bits shifted out are lost, no overflow check
Shl(a, n) == (a * (2 ^ n)) % 256

\* u8 >> n
Shr(a, n) == a \div (2 ^ n)

(***************************************************************************)
(* Option flags and opcodes (enum discriminants, `as u8`)                  *)
(***************************************************************************)
Bit4 == 0
Bit8 == 16
Dots5x8 == 0
Dots5x10 == 4
Line1 == 0
Line2 == 8
BlinkOff == 0
BlinkOn == 1
CursorOff == 0
CursorOn == 2
DisplayOff == 0
DisplayOn == 4
Left == 0
Right == 4
CursorMove == 0
DisplayMove == 8
EntryLeft == 0
EntryRight == 2
NoShift == 0
Shift == 1
ClearDisplay == 1
ReturnHome == 2
EntryModeSet == 4
DisplayControl == 8
CursorShift == 16
FunctionSet == 32
SetCGRamAddr == 64
SetDDRamAddr == 128

FunctionMode == {Bit4, Bit8}
FunctionDots == {Dots5x8, Dots5x10}
FunctionLine == {Line1, Line2}
DisplayBlink == {BlinkOff, BlinkOn}
DisplayCursor == {CursorOff, CursorOn}
DisplayMode == {DisplayOff, DisplayOn}
Direction == {Left, Right}
EntryModeDirection == {EntryLeft, EntryRight}
EntryModeShift == {NoShift, Shift}

(***************************************************************************)
(* Execution context threaded through one call: the hardware, whether the  *)
(* thread has panicked, the value returned by the last read, whether the   *)
(* build checks arithmetic overflow, the log of bytes handed to send, and  *)
(* for a hardware whose width answer changes while the call runs, how many *)
(* more mode() calls get the present answer (0: it does not change).       *)
(* After a panic nothing more happens: every hardware call is skipped.     *)
(***************************************************************************)
Ctx(h, checks) ==
    [hw |-> h, panicked |-> FALSE, ret |-> 0, overflow_checks |-> checks, sent |-> <<>>,
     changes_after |-> 0]

panic(x) == [x EXCEPT !.panicked = TRUE]

(***************************************************************************)
(* BufferHardware (src/tests/util/mod.rs)                                  *)
(***************************************************************************)
BufferHardware_command(x, cmd) ==
    IF x.panicked THEN x ELSE [x EXCEPT !.hw.commands = Append(@, cmd)]

rs(x, bit) == BufferHardware_command(x, <<"R/S", bit>>)

enable(x, bit) == BufferHardware_command(x, <<"EN", bit>>)

data(x, d) == BufferHardware_command(x, <<"DATA", d>>)

mode(x) == x.hw.mode

\* the context after one mode() call was answered: the next call gets the
\* other width when this was the last one to get the present answer
asked(x) ==
    IF x.panicked \/ x.changes_after = 0 THEN x
    ELSE IF x.changes_after > 1 THEN [x EXCEPT !.changes_after = @ - 1]
    ELSE [x EXCEPT !.changes_after = 0,
                   !.hw.mode = IF @ = Bit8 THEN Bit4 ELSE Bit8]

can_read(x) == x.hw.input.some

rw(x, bit) == BufferHardware_command(x, <<"RW", bit>>)

\* push "IS BUSY?", then input.as_mut().unwrap().remove(0): both the unwrap of
\* None and the removal from an empty vector panic
read_data(x) ==
    IF x.panicked THEN x
    ELSE LET y == BufferHardware_command(x, <<"IS BUSY?">>) IN
         IF ~y.hw.input.some \/ y.hw.input.v = <<>> THEN panic(y)
         ELSE [y EXCEPT !.ret = Head(x.hw.input.v), !.hw.input.v = Tail(@)]

delay_us(x, delay) == BufferHardware_command(x, <<"DELAY", delay>>)

\* Backlight for BufferHardware: self.command(format!("BACKLIGHT {}", enable));
\* no method of Display calls it
set_backlight(x, bit) == BufferHardware_command(x, <<"BACKLIGHT", bit>>)

\* Hardware::wait_address, the default: nothing
wait_address(x) == x

(***************************************************************************)
(* Display: the private layer (src/src/lib.rs).  Every method starts with  *)
(* the context it is entered in: a thread that has panicked runs nothing.  *)
(***************************************************************************)
\* pulse_enable that leaves enable high: low first, then high
pulse_enable_inverted(x) ==
    IF x.panicked THEN x
    ELSE enable(delay_us(enable(x, FALSE), 1), TRUE)

pulse_enable(x) ==
    IF x.panicked THEN x
    ELSE enable(delay_us(enable(x, TRUE), 1), FALSE)

\* send_data that strobes enable twice for one value
send_data_double_pulse(x, d) ==
    IF x.panicked THEN x
    ELSE pulse_enable(pulse_enable(data(x, d)))

send_data(x, d) ==
    IF x.panicked THEN x
    ELSE pulse_enable(data(x, d))

\* the log of the bytes send was called with
logged(x, d) == IF x.panicked THEN x ELSE [x EXCEPT !.sent = Append(@, d)]

\* send that puts the whole byte on the data lines for the low nibble
send_low_nibble_unmasked(x, d) ==
    IF x.panicked THEN x
    ELSE IF mode(x) = Bit8
    THEN send_data(logged(x, d), d)
    ELSE send_data(send_data(logged(x, d), Shr(d, 4)), d)

\* send that lets the chip settle for 50 us between the two nibbles
send_delay_between_nibbles(x, d) ==
    IF x.panicked THEN x
    ELSE IF mode(x) = Bit8
    THEN send_data(logged(x, d), d)
    ELSE send_data(delay_us(send_data(logged(x, d), Shr(d, 4)), 50), BitAnd(d, 15))

\* send with the nibbles in the wrong order
send_low_nibble_first(x, d) ==
    IF x.panicked THEN x
    ELSE IF mode(x) = Bit8
    THEN send_data(logged(x, d), d)
    ELSE send_data(send_data(logged(x, d), BitAnd(d, 15)), Shr(d, 4))

\* match self.hw.mode(): the width is asked for every byte
send(x, d) ==
    IF x.panicked THEN x
    ELSE IF mode(x) = Bit8
    THEN send_data(logged(asked(x), d), d)
    ELSE send_data(send_data(logged(asked(x), d), Shr(d, 4)), BitAnd(d, 15))

\* wait_ready that sets the bus direction before it delays
wait_ready_turns_bus(x, delay) ==
    IF x.panicked THEN x
    ELSE delay_us(rw(x, FALSE), delay)

\* self.hw.delay_us(delay): the wait is one delay on every hardware
wait_ready(x, delay) ==
    IF x.panicked THEN x
    ELSE delay_us(x, delay)

wait_ready_default(x) ==
    IF x.panicked THEN x
    ELSE wait_ready(x, 50)

\* command that sets register-select only after the byte is sent
command_rs_after_send(x, cmd) ==
    IF x.panicked THEN x
    ELSE wait_ready_default(rs(send(wait_address(x), cmd), FALSE))

command(x, cmd) ==
    IF x.panicked THEN x
    ELSE wait_ready_default(send(wait_address(rs(x, FALSE)), cmd))

(***************************************************************************)
(* Display: the public operations (src/src/lib.rs)                         *)
(***************************************************************************)
\* write that does not wait for readiness after the byte
write_without_wait(x, d) ==
    IF x.panicked THEN x
    ELSE delay_us(send(wait_address(rs(x, TRUE)), d), 5)

write(x, d) ==
    IF x.panicked THEN x
    ELSE delay_us(wait_ready_default(send(wait_address(rs(x, TRUE)), d)), 5)

clear(x) ==
    IF x.panicked THEN x
    ELSE wait_ready(command(x, ClearDisplay), 2000)

\* home that remembers, through the events recorded so far, that the cursor is
\* already home and then does nothing
home_cached(x) ==
    IF x.panicked THEN x
    ELSE IF x.hw.commands # <<>>
            /\ x.hw.commands[Len(x.hw.commands)] \in {<<"DELAY", 2000>>, <<"RW", FALSE>>}
    THEN x
    ELSE wait_ready(command(x, ReturnHome), 2000)

home(x) ==
    IF x.panicked THEN x
    ELSE wait_ready(command(x, ReturnHome), 2000)

entry_mode(x, dir, scroll_) ==
    IF x.panicked THEN x
    ELSE command(x, BitOr(BitOr(EntryModeSet, dir), scroll_))

\* display whose on/off flag is shifted into the opcode bit of cursor-shift
display_flag_bleeds(x, display_, cursor_, blink) ==
    IF x.panicked THEN x
    ELSE command(x, BitOr(BitOr(BitOr(DisplayControl, Shl(display_, 2)), cursor_), blink))

display(x, display_, cursor_, blink) ==
    IF x.panicked THEN x
    ELSE command(x, BitOr(BitOr(BitOr(DisplayControl, display_), cursor_), blink))

scroll(x, dir) ==
    IF x.panicked THEN x
    ELSE command(x, BitOr(BitOr(CursorShift, DisplayMove), dir))

cursor(x, dir) ==
    IF x.panicked THEN x
    ELSE command(x, BitOr(BitOr(CursorShift, CursorMove), dir))

\* init_bootstrap without the wait after the switch to 4-bit mode
init_bootstrap_no_switch_wait(x, m) ==
    IF x.panicked THEN x
    ELSE IF m = Bit8
    THEN LET a == send_data(x, BitOr(BitOr(BitOr(FunctionSet, Bit8), Line2), Dots5x10))
             b == delay_us(a, 4500)
             c == delay_us(pulse_enable(b), 150)
         IN  wait_ready_default(pulse_enable(c))
    ELSE LET a == send_data(x, Shr(BitOr(FunctionSet, Bit8), 4))
             b == delay_us(a, 4500)
             c == delay_us(pulse_enable(b), 150)
             d == wait_ready_default(pulse_enable(c))
         IN  send_data(d, Shr(BitOr(FunctionSet, Bit4), 4))

\* init_bootstrap with only two function-set repeats in 8-bit mode
init_bootstrap_two_repeats(x, m) ==
    IF x.panicked THEN x
    ELSE IF m = Bit8
    THEN LET a == send_data(x, BitOr(BitOr(BitOr(FunctionSet, Bit8), Line2), Dots5x10))
             b == delay_us(a, 4500)
         IN  wait_ready_default(pulse_enable(b))
    ELSE LET a == send_data(x, Shr(BitOr(FunctionSet, Bit8), 4))
             b == delay_us(a, 4500)
             c == delay_us(pulse_enable(b), 150)
             d == wait_ready_default(pulse_enable(c))
             e == send_data(d, Shr(BitOr(FunctionSet, Bit4), 4))
         IN  wait_ready_default(e)

\* init_bootstrap that makes a readiness wait, not the delay of 4500 us, after
\* the first function-set
init_bootstrap_waits_early(x, m) ==
    IF x.panicked THEN x
    ELSE IF m = Bit8
    THEN LET a == send_data(x, BitOr(BitOr(BitOr(FunctionSet, Bit8), Line2), Dots5x10))
             b == wait_ready_default(a)
             c == delay_us(pulse_enable(b), 150)
         IN  wait_ready_default(pulse_enable(c))
    ELSE LET a == send_data(x, Shr(BitOr(FunctionSet, Bit8), 4))
             b == wait_ready_default(a)
             c == delay_us(pulse_enable(b), 150)
             d == wait_ready_default(pulse_enable(c))
             e == send_data(d, Shr(BitOr(FunctionSet, Bit4), 4))
         IN  wait_ready_default(e)

\* the match on the mode in init: the first three function-set repeats, then
\* in 4-bit mode the switch
init_bootstrap(x, m) ==
    IF x.panicked THEN x
    ELSE IF m = Bit8
    THEN LET a == send_data(x, BitOr(BitOr(BitOr(FunctionSet, Bit8), Line2), Dots5x10))
             b == delay_us(a, 4500)
             c == delay_us(pulse_enable(b), 150)
         IN  wait_ready_default(pulse_enable(c))
    ELSE LET a == send_data(x, Shr(BitOr(FunctionSet, Bit8), 4))
             b == delay_us(a, 4500)
             c == delay_us(pulse_enable(b), 150)
             d == wait_ready_default(pulse_enable(c))
             e == send_data(d, Shr(BitOr(FunctionSet, Bit4), 4))
         IN  wait_ready_default(e)

\* init whose first function-set in 8-bit mode carries the caller's line and
\* dots, not Line2 and Dots5x10
init_bootstrap_takes_arguments(x, line, dots) ==
    IF x.panicked THEN x
    ELSE LET m == mode(x)
             a == wait_address(rs(x, FALSE))
             b == IF m = Bit8
                  THEN LET p == send_data(a, BitOr(BitOr(BitOr(FunctionSet, Bit8), line), dots))
                           q == delay_us(p, 4500)
                           r == delay_us(pulse_enable(q), 150)
                       IN  wait_ready_default(pulse_enable(r))
                  ELSE init_bootstrap(a, m)
             c == command(b, BitOr(BitOr(BitOr(FunctionSet, m), line), dots))
             d == display(c, DisplayOff, CursorOff, BlinkOff)
             e == clear(d)
         IN  entry_mode(e, EntryRight, NoShift)

\* init that sets the entry mode before it clears the display
init_entry_mode_before_clear(x, line, dots) ==
    IF x.panicked THEN x
    ELSE LET m == mode(x)
             a == wait_address(rs(x, FALSE))
             b == init_bootstrap(a, m)
             c == command(b, BitOr(BitOr(BitOr(FunctionSet, m), line), dots))
             d == display(c, DisplayOff, CursorOff, BlinkOff)
             e == entry_mode(d, EntryRight, NoShift)
         IN  clear(e)

\* init that leaves the display switched on
init_leaves_display_on(x, line, dots) ==
    IF x.panicked THEN x
    ELSE LET m == mode(x)
             a == wait_address(rs(x, FALSE))
             b == init_bootstrap(a, m)
             c == command(b, BitOr(BitOr(BitOr(FunctionSet, m), line), dots))
             d == display(c, DisplayOn, CursorOff, BlinkOff)
             e == clear(d)
         IN  entry_mode(e, EntryRight, NoShift)

\* let mode = self.hw.mode(): asked once, used for the bootstrap and for the
\* function-set byte
init(x, line, dots) ==
    IF x.panicked THEN x
    ELSE LET m == mode(x)
             a == wait_address(rs(asked(x), FALSE))
             b == init_bootstrap(a, m)
             c == command(b, BitOr(BitOr(BitOr(FunctionSet, m), line), dots))
             d == display(c, DisplayOff, CursorOff, BlinkOff)
             e == clear(d)
         IN  entry_mode(e, EntryRight, NoShift)

position_offset(row) ==
    CASE row = 1 -> 64
      [] row = 2 -> 20
      [] row = 3 -> 84
      [] OTHER -> 0

\* col + offset is a u8 addition: past 255 it panics in a build with overflow
\* checks (debug) and wraps in a build without (release)
position(x, col, row) ==
    IF x.panicked THEN x
    ELSE LET offset == position_offset(row) IN
         IF col + offset > 255 /\ x.overflow_checks
         THEN panic(x)
         ELSE command(x, BitOr(SetDDRamAddr, (col + offset) % 256))

\* print that writes the bytes of the string from the last to the first
RECURSIVE print_reversed(_, _)
print_reversed(x, str) ==
    IF x.panicked THEN x
    ELSE IF str = <<>> THEN x
    ELSE write(print_reversed(x, Tail(str)), Head(str))

\* print that writes the whole rest of the string again for every byte
RECURSIVE print_rewrites_rest(_, _)
print_rewrites_rest(x, str) ==
    IF x.panicked THEN x
    ELSE IF str = <<>> THEN x
    ELSE print_rewrites_rest(print_reversed(x, str), Tail(str))

\* for c in str.as_bytes() { self.write(*c); }
RECURSIVE print(_, _)
print(x, str) ==
    IF x.panicked THEN x
    ELSE IF str = <<>> THEN x
    ELSE print(write(x, Head(str)), Tail(str))

\* write_str that takes the string to end at its first NUL byte
write_str_stops_at_nul(x, s) ==
    IF x.panicked THEN x
    ELSE LET nuls == {i \in 1..Len(s) : s[i] = 0}
             end == IF nuls = {} THEN Len(s)
                    ELSE (CHOOSE i \in nuls : \A j \in nuls : i <= j) - 1
             y == print(x, SubSeq(s, 1, end))
         IN  IF y.panicked THEN y ELSE [y EXCEPT !.ret = "Ok"]

\* core::fmt::Write for Display: self.print(s); Ok(())
write_str(x, s) ==
    IF x.panicked THEN x
    ELSE LET y == print(x, s)
         IN  IF y.panicked THEN y ELSE [y EXCEPT !.ret = "Ok"]

\* fast_fmt::Write for Display (feature "fast-format"): self.write(val as u8);
\* Ok(()).  The cast keeps the low eight bits of the character's scalar value.
write_char(x, val) ==
    IF x.panicked THEN x
    ELSE LET y == write(x, val % 256)
         IN  IF y.panicked THEN y ELSE [y EXCEPT !.ret = "Ok"]

\* fast_fmt::Write::size_hint: an empty body
size_hint(x, bytes) == x

\* for item in map.iter().take(8) { self.write(*item); }
RECURSIVE upload_rows(_, _)
upload_rows(x, items) ==
    IF x.panicked THEN x
    ELSE IF items = <<>> THEN x
    ELSE upload_rows(write(x, Head(items)), Tail(items))

\* upload_character that forgets to shift the location into the address
upload_character_unshifted(x, location, map) ==
    IF x.panicked THEN x
    ELSE IF ~(location <= 7)
    THEN panic(x)
    ELSE upload_rows(command(x, BitOr(SetCGRamAddr, BitAnd(location, 7))),
                     SubSeq(map, 1, 8))

\* upload_character that masks the location instead of asserting it
upload_character_no_assert(x, location, map) ==
    IF x.panicked THEN x
    ELSE upload_rows(command(x, BitOr(SetCGRamAddr, Shl(BitAnd(location, 7), 3))),
                     SubSeq(map, 1, 8))

upload_character(x, location, map) ==
    IF x.panicked THEN x
    ELSE IF ~(location <= 7)
    THEN panic(x)
    ELSE upload_rows(command(x, BitOr(SetCGRamAddr, Shl(BitAnd(location, 7), 3))),
                     SubSeq(map, 1, 8))

(***************************************************************************)
(* The test harness (src/tests/util/mod.rs, fn test): a BufferHardware     *)
(* with no commands, the given input and mode is moved into a new Display, *)
(* and the operations of the test run on it.                               *)
(***************************************************************************)
MaxRow == 5
MaxBusy == 2
MaxOps == 2
PadLen == 20

Zeros(n) == [i \in 1..n |-> 0]

\* status bytes a test feeds to read_data: idle, bit 3 set, bit 7 set
StatusBytes == {0, 8, 128}

None == [some |-> FALSE, v |-> <<>>]

Some(v) == [some |-> TRUE, v |-> v]

\* a chip that is never busy
IdleInputs == {None, Some(Zeros(PadLen))}

\* a chip that answers up to MaxBusy arbitrary status bytes and is idle afterwards
BusyInputs ==
    {None} \cup
    {Some(pre \o Zeros(PadLen)) :
        pre \in UNION {[1..n -> StatusBytes] : n \in 0..MaxBusy}}

ARROW == <<0, 8, 12, 14, 31, 14, 12, 8>>

Glyphs == {ARROW, <<255, 254, 128, 64, 32, 31, 1, 0>>, <<165, 90, 17, 170, 85, 224, 7, 96>>}

\* the bytes of the &str values "", "H", "Hi" and "\u{b5}\0" (UTF-8: a
\* two-byte sequence 0xC2 0xB5, and NUL)
Strs == {<<>>, <<72>>, <<72, 105>>, <<194, 181, 0>>}

\* the scalar values of the chars 'a', U+00B5, U+20AC and U+1F600
Chars == {97, 181, 8364, 128512}

\* the byte counts given as a size hint
Hints == {0, 1, 64}

\* Display { hw: hw }: the Display is the hardware it owns.  The impl has no
\* method that gives the hardware back: the field hw is private and the only
\* other methods are the operations below.
new(h) == h

NewDisplay(inputs) ==
    /\ hw \in {new(h) : h \in [commands : {<<>>}, input : inputs, mode : FunctionMode]}
    /\ panicked = FALSE
    /\ call = [op |-> "new", args |-> <<>>, from |-> 0, input |-> <<>>,
               sent |-> <<>>, checks |-> FALSE]
    /\ nops = 0
    /\ ended = FALSE

\* One public operation called on the Display; y is the context it ends in.
Do(op, args, y) ==
    /\ ~panicked
    /\ hw' = y.hw
    /\ panicked' = y.panicked
    /\ call' = [op |-> op, args |-> args, from |-> Len(hw.commands),
                input |-> hw.input.v, sent |-> y.sent, checks |-> y.overflow_checks]
    /\ nops' = nops + 1
    /\ UNCHANGED ended

X == Ctx(hw, FALSE)

CallInit(line, dots) == Do("init", <<line, dots>>, init(X, line, dots))

CallClear == Do("clear", <<>>, clear(X))

CallHome == Do("home", <<>>, home(X))

CallEntryMode(dir, shift) == Do("entry_mode", <<dir, shift>>, entry_mode(X, dir, shift))

CallDisplay(d, c, b) == Do("display", <<d, c, b>>, display(X, d, c, b))

CallScroll(dir) == Do("scroll", <<dir>>, scroll(X, dir))

CallCursor(dir) == Do("cursor", <<dir>>, cursor(X, dir))

\* the build decides what an overflowing u8 addition does
CallPosition(col, row) ==
    \E checks \in BOOLEAN :
        Do("position", <<col, row>>, position(Ctx(hw, checks), col, row))

CallPrint(str) == Do("print", str, print(X, str))

CallWrite(d) == Do("write", <<d>>, write(X, d))

CallUploadCharacter(location, map) ==
    Do("upload_character", <<location>> \o map, upload_character(X, location, map))

\* the Display used as a formatting target; the call record keeps the Result
CallWriteStr(s) ==
    LET y == write_str(X, s)
    IN  /\ ~panicked
        /\ hw' = y.hw
        /\ panicked' = y.panicked
        /\ call' = [op |-> "write_str", args |-> s, from |-> Len(hw.commands),
                    input |-> hw.input.v, sent |-> y.sent,
                    checks |-> y.overflow_checks, result |-> y.ret]
        /\ nops' = nops + 1
        /\ UNCHANGED ended

\* the Display used as a fast_fmt target for one character
CallWriteChar(val) ==
    LET y == write_char(X, val)
    IN  /\ ~panicked
        /\ hw' = y.hw
        /\ panicked' = y.panicked
        /\ call' = [op |-> "write_char", args |-> <<val>>, from |-> Len(hw.commands),
                    input |-> hw.input.v, sent |-> y.sent,
                    checks |-> y.overflow_checks, result |-> y.ret]
        /\ nops' = nops + 1
        /\ UNCHANGED ended

CallSizeHint(bytes) == Do("size_hint", <<bytes>>, size_hint(X, bytes))

(***************************************************************************)
(* Spec: one operation per test, as in src/tests/*.rs, with every argument *)
(* value, on hardware without read support and on an idle readable chip.   *)
(***************************************************************************)
Init == NewDisplay(IdleInputs)

Next ==
    /\ nops = 0
    /\ \/ \E line \in FunctionLine, dots \in FunctionDots : CallInit(line, dots)
       \/ CallClear
       \/ CallHome
       \/ \E dir \in EntryModeDirection, shift \in EntryModeShift : CallEntryMode(dir, shift)
       \/ \E d \in DisplayMode, c \in DisplayCursor, b \in DisplayBlink : CallDisplay(d, c, b)
       \/ \E dir \in Direction : CallScroll(dir)
       \/ \E dir \in Direction : CallCursor(dir)
       \/ \E col \in Byte, row \in 0..MaxRow : CallPosition(col, row)
       \/ \E str \in Strs : CallPrint(str)
       \/ \E d \in Byte : CallWrite(d)
       \/ \E location \in Byte, map \in Glyphs : CallUploadCharacter(location, map)
       \/ \E str \in Strs : CallWriteStr(str)
       \/ \E val \in Chars : CallWriteChar(val)
       \/ \E bytes \in Hints : CallSizeHint(bytes)

Spec == Init /\ [][Next]_vars

(***************************************************************************)
(* SpecSeq: up to MaxOps operations in a row on one Display, with a few    *)
(* argument values each, on hardware without read support and on a chip    *)
(* whose first status bytes are arbitrary.                                 *)
(***************************************************************************)
InitSeq == NewDisplay(BusyInputs)

NextSeq ==
    /\ nops < MaxOps
    /\ \/ CallInit(Line2, Dots5x8)
       \/ CallClear
       \/ CallHome
       \/ CallEntryMode(EntryLeft, Shift)
       \/ CallDisplay(DisplayOn, CursorOn, BlinkOff)
       \/ CallScroll(Right)
       \/ CallCursor(Left)
       \/ \E col \in {7, 250} : CallPosition(col, 2)
       \/ CallPrint(<<72, 105>>)
       \/ CallWrite(97)
       \/ \E location \in {3, 8} : CallUploadCharacter(location, ARROW)

SpecSeq == InitSeq /\ [][NextSeq]_vars

(***************************************************************************)
(* Reading the recorded events                                             *)
(***************************************************************************)
\* the events of the operation called last
Seg == SubSeq(hw.commands, call.from + 1, Len(hw.commands))

IsData(e) == e[1] = "DATA"

IsDelay(e) == e[1] = "DELAY"

IsRs(e) == e[1] = "R/S"

IsRead(e) == e[1] = "IS BUSY?"

IsRw(e) == e[1] = "RW"

\* the second components of a sequence of events
Values(seg) == [i \in 1..Len(seg) |-> seg[i][2]]

\* the values put on the data lines, in order
DataValues(seg) == Values(SelectSeq(seg, IsData))

\* the positions of the DATA events, in order
DataPositions(seg) ==
    LET IsDataAt(i) == IsData(seg[i])
    IN  SelectSeq([i \in 1..Len(seg) |-> i], IsDataAt)

\* seg holds event e at position i
At(seg, i, e) == i >= 1 /\ i <= Len(seg) /\ seg[i] = e

\* an enable pulse (enable high, delay 1, enable low) starts at position i
PulseAt(seg, i) ==
    /\ At(seg, i, <<"EN", TRUE>>)
    /\ At(seg, i + 1, <<"DELAY", 1>>)
    /\ At(seg, i + 2, <<"EN", FALSE>>)

\* no enable pulse and no data write starts at position i
QuietAt(seg, i) == i > Len(seg) \/ seg[i][1] \notin {"EN", "DATA"}

\* how a byte is put on the data lines: one value, or high nibble then low nibble
Frame(m, b) == IF m = Bit8 THEN <<b>> ELSE <<b \div 16, b % 16>>

RECURSIVE Frames(_, _)
Frames(m, bytes) ==
    IF bytes = <<>> THEN <<>> ELSE Frame(m, Head(bytes)) \o Frames(m, Tail(bytes))

\* the last n elements of s
Last(s, n) == SubSeq(s, Len(s) - n + 1, Len(s))

\* data values per byte
Width(m) == IF m = Bit8 THEN 1 ELSE 2

(***************************************************************************)
(* C1: every byte b handed to send by a command or a data write goes out   *)
(* as exactly two enable pulses in 4-bit mode, the first with the data     *)
(* lines at b >> 4 and the second with the data lines at b & 0xF, and as   *)
(* exactly one enable pulse with the data lines at b in 8-bit mode; a data *)
(* write of b hands exactly b to send.                                     *)
(***************************************************************************)
C1_ByteTransfer(j) ==
    LET w == Width(hw.mode)
        pos == Last(DataPositions(Seg), w * Len(call.sent))
        first == pos[w * (j - 1) + 1]
        b == call.sent[j]
    IN  /\ Seg[first] = <<"DATA", Frame(hw.mode, b)[1]>>
        /\ PulseAt(Seg, first + 1)
        /\ IF hw.mode = Bit8
           THEN QuietAt(Seg, first + 4)
           ELSE /\ At(Seg, first + 4, <<"DATA", b % 16>>)
                /\ PulseAt(Seg, first + 5)
                /\ QuietAt(Seg, first + 8)

C1_SendFraming ==
    /\ Len(DataPositions(Seg)) >= Width(hw.mode) * Len(call.sent)
    /\ \A j \in 1..Len(call.sent) : C1_ByteTransfer(j)
    /\ Last(DataValues(Seg), Width(hw.mode) * Len(call.sent)) = Frames(hw.mode, call.sent)
    /\ (call.op # "init" =>
            Len(DataValues(Seg)) = Width(hw.mode) * Len(call.sent))
    /\ (call.op = "write" /\ ~panicked => call.sent = call.args)

C1_Witness ==
    /\ call.op = "write" /\ call.args = <<165>> /\ hw.mode = Bit4 /\ ~panicked
    /\ DataValues(Seg) = <<10, 5>>
    /\ call.sent = <<165>>

(***************************************************************************)
(* Event sequences the claims are stated with                              *)
(***************************************************************************)
\* enable high, delay 1, enable low
Pulse == << <<"EN", TRUE>>, <<"DELAY", 1>>, <<"EN", FALSE>> >>

\* a value put on the data lines and pulsed
Pulsed(v) == << <<"DATA", v>> >> \o Pulse

RsLow == << <<"R/S", FALSE>> >>

RsHigh == << <<"R/S", TRUE>> >>

Delay(us) == << <<"DELAY", us>> >>

(***************************************************************************)
(* C2: init(Line2, Dots5x8) in 4-bit mode without busy-flag support emits  *)
(* exactly: RS low; data 0x3, pulse, delay 4500; pulse, delay 150; pulse,  *)
(* delay 50; data 0x2, pulse, delay 50; RS low, nibbles 0x2 and 0x8,       *)
(* delay 50; RS low, nibbles 0x0 and 0x8, delay 50; RS low, nibbles 0x0    *)
(* and 0x1, delay 50, delay 2000; RS low, nibbles 0x0 and 0x6, delay 50.   *)
(***************************************************************************)
C2_Trace ==
    RsLow \o Pulsed(3) \o Delay(4500) \o Pulse \o Delay(150) \o Pulse \o Delay(50)
    \o Pulsed(2) \o Delay(50)
    \o RsLow \o Pulsed(2) \o Pulsed(8) \o Delay(50)
    \o RsLow \o Pulsed(0) \o Pulsed(8) \o Delay(50)
    \o RsLow \o Pulsed(0) \o Pulsed(1) \o Delay(50) \o Delay(2000)
    \o RsLow \o Pulsed(0) \o Pulsed(6) \o Delay(50)

C2_Init4BitNoBusy ==
    (call.op = "init" /\ call.args = <<Line2, Dots5x8>>
        /\ hw.mode = Bit4 /\ ~hw.input.some)
    => (~panicked /\ Seg = C2_Trace)

C2_Witness ==
    /\ call.op = "init" /\ call.args = <<Line2, Dots5x8>>
    /\ hw.mode = Bit4 /\ ~hw.input.some
    /\ ~panicked
    /\ DataValues(Seg) = <<3, 2, 2, 8, 0, 8, 0, 1, 0, 6>>

(***************************************************************************)
(* C3: init(Line2, Dots5x8) in 8-bit mode without busy-flag support emits  *)
(* exactly: RS low; data 0x3C, pulse, delay 4500; pulse, delay 150; pulse, *)
(* delay 50; then RS low, one data write, one pulse, delay 50 for each of  *)
(* the bytes 0x38, 0x08, 0x01 (with one more delay 2000) and 0x06.         *)
(***************************************************************************)
C3_Trace ==
    RsLow \o Pulsed(60) \o Delay(4500) \o Pulse \o Delay(150) \o Pulse \o Delay(50)
    \o RsLow \o Pulsed(56) \o Delay(50)
    \o RsLow \o Pulsed(8) \o Delay(50)
    \o RsLow \o Pulsed(1) \o Delay(50) \o Delay(2000)
    \o RsLow \o Pulsed(6) \o Delay(50)

C3_Init8BitNoBusy ==
    (call.op = "init" /\ call.args = <<Line2, Dots5x8>>
        /\ hw.mode = Bit8 /\ ~hw.input.some)
    => (~panicked /\ Seg = C3_Trace)

C3_Witness ==
    /\ call.op = "init" /\ call.args = <<Line2, Dots5x8>>
    /\ hw.mode = Bit8 /\ ~hw.input.some
    /\ ~panicked
    /\ DataValues(Seg) = <<60, 56, 8, 1, 6>>

(***************************************************************************)
(* C4: for every transfer width and every (line, dots), init sends after   *)
(* the bootstrap exactly four commands, in this order, and returns:        *)
(* function-set 0x20 | width | line | dots, display-control 0x08, clear    *)
(* 0x01, entry-mode 0x06; the data lines carry the bootstrap values and    *)
(* then these four bytes and nothing else, all with register-select low.   *)
(***************************************************************************)
C4_Commands == <<32 + hw.mode + call.args[1] + call.args[2], 8, 1, 6>>

C4_BootstrapData == IF hw.mode = Bit8 THEN <<60>> ELSE <<3, 2>>

C4_InitCommands ==
    call.op = "init"
    => /\ ~panicked
       /\ call.sent = C4_Commands
       /\ DataValues(Seg) = C4_BootstrapData \o Frames(hw.mode, C4_Commands)
       /\ \A i \in 1..Len(Seg) : IsRs(Seg[i]) => Seg[i] = <<"R/S", FALSE>>
       /\ Seg[Len(Seg)][1] \in {"DELAY", "RW"}

C4_Witness ==
    /\ call.op = "init" /\ call.args = <<Line1, Dots5x10>> /\ hw.mode = Bit8
    /\ ~panicked
    /\ call.sent = <<52, 8, 1, 6>>

(***************************************************************************)
(* More reading of the recorded events                                     *)
(***************************************************************************)
\* the positions of seg, in order, whose event satisfies Test
Positions(seg, Test(_)) ==
    LET TestAt(i) == Test(seg[i])
    IN  SelectSeq([i \in 1..Len(seg) |-> i], TestAt)

\* the greatest member of a non-empty set of numbers
Max(S) == CHOOSE i \in S : \A j \in S : j <= i

\* the least member of a non-empty set of numbers
Min(S) == CHOOSE i \in S : \A j \in S : i <= j

\* how many status reads seg holds before position p
ReadsBefore(seg, p) == Cardinality({i \in 1..(p - 1) : IsRead(seg[i])})

\* the position of the first RW event after position p, 0 when there is none
NextRw(seg, p) ==
    LET later == {i \in (p + 1)..Len(seg) : IsRw(seg[i])}
    IN  IF later = {} THEN 0 ELSE Min(later)

\* the status byte the driver samples from one poll cycle's reads
Sampled(m, reads) ==
    IF m = Bit8 THEN reads[1] ELSE ((reads[1] * 16) % 256) + (reads[2] % 16)

\* bit 7 of a byte
Bit7(b) == b >= 128

\* the durations of the delays other than the 1 us of an enable strobe
Waits(seg) ==
    LET IsWait(e) == IsDelay(e) /\ e[2] # 1
    IN  Values(SelectSeq(seg, IsWait))

\* s repeated n times
RECURSIVE Repeat(_, _)
Repeat(s, n) == IF n = 0 THEN <<>> ELSE s \o Repeat(s, n - 1)

(***************************************************************************)
(* C5: with busy-flag polling, a readiness wait whose status reads are     *)
(* busy (bit 7 of the sampled byte set) exactly N times and then not busy  *)
(* makes exactly N+1 poll cycles (one read each in 8-bit mode, a pair of   *)
(* nibble reads each in 4-bit mode) and then sets the bus direction back   *)
(* to write: on hardware that supports reading every byte sent is followed *)
(* by a poll, every cycle of a poll but the last samples busy, the last    *)
(* samples not busy, and RW false follows it.                              *)
(***************************************************************************)
\* the poll that starts with the RW true at position p of the last call
C5_Poll(p) ==
    LET q == NextRw(Seg, p)
        w == Width(hw.mode)
        before == ReadsBefore(Seg, p)
        n == ReadsBefore(Seg, q) - before
        cycles == n \div w
        status(k) == Sampled(hw.mode,
                             SubSeq(call.input, before + (k - 1) * w + 1, before + k * w))
    IN  /\ q # 0
        /\ Seg[q] = <<"RW", FALSE>>
        /\ n % w = 0
        /\ cycles >= 1
        /\ \A k \in 1..(cycles - 1) : Bit7(status(k))
        /\ ~Bit7(status(cycles))

C5_BusyPollCycles ==
    (hw.input.some /\ ~panicked)
    => /\ Len(Positions(Seg, LAMBDA e : e = <<"RW", TRUE>>)) >= Len(call.sent)
       /\ \A p \in 1..Len(Seg) : Seg[p] = <<"RW", TRUE>> => C5_Poll(p)
       /\ \A p \in 1..Len(Seg) :
            IsRead(Seg[p]) => \E r \in 1..(p - 1) :
                                /\ Seg[r] = <<"RW", TRUE>>
                                /\ NextRw(Seg, r) > p

(***************************************************************************)
(* C6: on hardware without read support no sequence of operations ever     *)
(* sets the bus direction or reads the data lines, and every readiness     *)
(* wait is one delay of its fallback duration: 50 after every byte sent,   *)
(* and 2000 once more after the 50 of clear and of home.                   *)
(***************************************************************************)
C6_InitWaits ==
    IF hw.mode = Bit8
    THEN <<4500, 150, 50, 50, 50, 50, 2000, 50>>
    ELSE <<4500, 150, 50, 50, 50, 50, 50, 2000, 50>>

C6_Waits ==
    CASE panicked -> <<>>
      [] call.op = "new" -> <<>>
      [] call.op = "init" -> C6_InitWaits
      [] call.op \in {"clear", "home"} -> <<50, 2000>>
      [] call.op = "write" -> <<50, 5>>
      [] call.op = "print" -> Repeat(<<50, 5>>, Len(call.args))
      [] call.op = "upload_character" -> <<50>> \o Repeat(<<50, 5>>, 8)
      [] OTHER -> <<50>>

\* the event after the transfer of the j-th byte sent by the last call
C6_AfterTransfer(j) ==
    LET w == Width(hw.mode)
        pos == Last(DataPositions(Seg), w * Len(call.sent))
    IN  pos[w * j] + 4

C6_NoReadSide ==
    ~hw.input.some
    => /\ \A i \in 1..Len(hw.commands) : ~IsRw(hw.commands[i]) /\ ~IsRead(hw.commands[i])
       /\ Waits(Seg) = C6_Waits
       /\ \A j \in 1..Len(call.sent) : At(Seg, C6_AfterTransfer(j), <<"DELAY", 50>>)

C6_Witness ==
    /\ ~hw.input.some /\ ~panicked
    /\ nops = 2 /\ call.from > 0
    /\ call.op = "clear"
    /\ Waits(Seg) = <<50, 2000>>

(***************************************************************************)
(* C7: position(col, row) issues exactly one set-DDRAM-address command     *)
(* whose byte is 0x80 | (col + offset), with offset 0x00 for row 0, 0x40   *)
(* for row 1, 0x14 for row 2, 0x54 for row 3 and 0x00 for any other row.   *)
(***************************************************************************)
C7_Offset ==
    CASE call.args[2] = 0 -> 0
      [] call.args[2] = 1 -> 64
      [] call.args[2] = 2 -> 20
      [] call.args[2] = 3 -> 84
      [] OTHER -> 0

\* 0x80 | n for a byte n
C7_Or128(n) == IF n >= 128 THEN n ELSE n + 128

\* col + offset, read as the driver's u8 sum
C7_Sum == (call.args[1] + C7_Offset) % 256

C7_PositionAddress ==
    call.op = "position"
    => /\ ~panicked
       /\ call.sent = <<C7_Or128(C7_Sum)>>
       /\ DataValues(Seg) = Frame(hw.mode, C7_Or128(C7_Sum))

(***************************************************************************)
(* C8: position(col, row) is total: for every col and row it completes     *)
(* without aborting, the 8-bit sum col + offset(row) does not overflow,    *)
(* and exactly one command byte with bit 7 set is sent.                    *)
(***************************************************************************)
C8_PositionTotal ==
    call.op = "position"
    => /\ ~panicked
       /\ call.args[1] + position_offset(call.args[2]) <= 255
       /\ Len(call.sent) = 1
       /\ Bit7(call.sent[1])

(***************************************************************************)
(* C9: for every slot in 0..7 and every glyph, upload_character(slot,      *)
(* glyph) sends the command 0x40 | slot*8 with register-select low and     *)
(* then the 8 glyph bytes, unmodified and in order, with register-select   *)
(* high, each followed by its readiness wait and then a delay of 5; the    *)
(* data lines carry nothing else.                                          *)
(***************************************************************************)
\* the level register-select was last set to before position i
C9_RsAt(i) == Seg[Max({r \in 1..(i - 1) : IsRs(Seg[r])})][2]

\* the j-th byte sent by the last call: its first DATA event, and the event
\* after its last pulse
C9_First(j) == DataPositions(Seg)[Width(hw.mode) * (j - 1) + 1]

C9_After(j) == DataPositions(Seg)[Width(hw.mode) * j] + 4

\* the readiness wait, a delay of 50, is at position i and a delay of 5
\* follows it
C9_WaitThenDelay5(i) ==
    /\ At(Seg, i, <<"DELAY", 50>>)
    /\ At(Seg, i + 1, <<"DELAY", 5>>)

C9_UploadCharacter ==
    (call.op = "upload_character" /\ call.args[1] <= 7)
    => /\ ~panicked
       /\ call.sent = <<64 + 8 * call.args[1]>> \o SubSeq(call.args, 2, 9)
       /\ DataValues(Seg) = Frames(hw.mode, call.sent)
       /\ C9_RsAt(C9_First(1)) = FALSE
       /\ \A j \in 2..9 : /\ C9_RsAt(C9_First(j)) = TRUE
                          /\ C9_WaitThenDelay5(C9_After(j))
       /\ Len(SelectSeq(Seg, LAMBDA e : e = <<"DELAY", 5>>)) = 8
       /\ Seg[Len(Seg)] = <<"DELAY", 5>>

C9_Witness ==
    /\ call.op = "upload_character" /\ call.args = <<3>> \o ARROW
    /\ hw.mode = Bit4 /\ ~hw.input.some /\ ~panicked
    /\ call.sent = <<88, 0, 8, 12, 14, 31, 14, 12, 8>>

(***************************************************************************)
(* C10: upload_character with a slot greater than 7 aborts before any      *)
(* hardware operation: the call emits no event at all, for every slot in   *)
(* 8..255 and every glyph.                                                 *)
(***************************************************************************)
C10_UploadBadSlot ==
    (call.op = "upload_character" /\ call.args[1] > 7)
    => /\ panicked
       /\ Seg = <<>>
       /\ hw.commands = <<>>
       /\ hw.input.v = call.input

C10_Witness ==
    /\ call.op = "upload_character" /\ call.args[1] = 255
    /\ panicked
    /\ hw.commands = <<>>

(***************************************************************************)
(* Event sequences of the read side                                        *)
(***************************************************************************)
RwRead == << <<"RW", TRUE>> >>

RwWrite == << <<"RW", FALSE>> >>

\* one strobed status read
ReadCycle ==
    << <<"EN", TRUE>>, <<"DELAY", 1>>, <<"IS BUSY?">>, <<"DELAY", 1>>, <<"EN", FALSE>> >>

\* the pulsed values of a sequence of data-line values
RECURSIVE PulsedAll(_)
PulsedAll(vals) ==
    IF vals = <<>> THEN <<>> ELSE Pulsed(Head(vals)) \o PulsedAll(Tail(vals))

\* the transfer of byte b in mode m
Transfer(m, b) == PulsedAll(Frame(m, b))

\* seg is one complete busy-poll sequence: register-select low, bus direction
\* read, status reads strobed by enable and nothing else, bus direction write
IsPollSequence(seg) ==
    /\ Len(seg) >= 4
    /\ SubSeq(seg, 1, 2) = RsLow \o RwRead
    /\ Last(seg, 1) = RwWrite
    /\ LET cycles == SubSeq(seg, 3, Len(seg) - 1)
       IN  /\ Len(cycles) >= 5
           /\ Len(cycles) % 5 = 0
           /\ cycles = Repeat(ReadCycle, Len(cycles) \div 5)

(***************************************************************************)
(* C11: write(b), for every byte b, sets register-select high, transfers   *)
(* b, makes one default readiness wait and ends with a delay of 5: without *)
(* read support the events after the transfer are delay 50, delay 5; with  *)
(* busy polling they are one complete poll sequence, which ends with the   *)
(* bus direction set back to write, and then delay 5.  (The address-setup  *)
(* wait of the recording hardware is the default one, which does nothing.) *)
(***************************************************************************)
\* the events of the last call after register-select and the transfer of one byte
C11_Rest == SubSeq(Seg, 2 + 4 * Width(hw.mode), Len(Seg))

C11_WriteTrace ==
    call.op = "write"
    => /\ ~panicked
       /\ Len(Seg) >= 3 + 4 * Width(hw.mode)
       /\ SubSeq(Seg, 1, 1 + 4 * Width(hw.mode))
            = RsHigh \o Transfer(hw.mode, call.args[1])
       /\ Last(Seg, 1) = Delay(5)
       /\ IF hw.input.some
          THEN /\ IsPollSequence(SubSeq(C11_Rest, 1, Len(C11_Rest) - 1))
               /\ Last(Seg, 2) = RwWrite \o Delay(5)
          ELSE C11_Rest = Delay(50) \o Delay(5)

(***************************************************************************)
(* The Display as the last call found it                                   *)
(***************************************************************************)
\* the hardware before the last call: the events recorded until then, and the
\* status bytes not yet read
HwBefore ==
    [commands |-> SubSeq(hw.commands, 1, call.from),
     input |-> [some |-> hw.input.some, v |-> call.input],
     mode |-> hw.mode]

Before == Ctx(HwBefore, call.checks)

\* the events a call adds that takes the Display from context x to context y
Added(x, y) == SubSeq(y.hw.commands, Len(x.hw.commands) + 1, Len(y.hw.commands))

(***************************************************************************)
(* C12: print(s) makes exactly one write per byte of s, from left to       *)
(* right: its events are the events of write(s[1]), then those of          *)
(* write(s[2]), and so on, each write starting where the one before left   *)
(* the hardware; print of the empty string emits nothing; and for every    *)
(* split of s into s1 followed by s2, print(s) leaves the hardware as      *)
(* print(s1) followed by print(s2) leaves it.                              *)
(***************************************************************************)
\* the events of write(s[1]), write(s[2]), ... made one after the other from x
RECURSIVE C12_WriteTraces(_, _)
C12_WriteTraces(x, s) ==
    IF s = <<>> THEN <<>>
    ELSE LET y == write(x, Head(s))
         IN  Added(x, y) \o C12_WriteTraces(y, Tail(s))

C12_PrintIsWrites ==
    call.op = "print"
    => /\ ~panicked
       /\ Seg = C12_WriteTraces(Before, call.args)
       /\ call.sent = call.args
       /\ Len(SelectSeq(Seg, LAMBDA e : e = <<"R/S", TRUE>>)) = Len(call.args)
       /\ Len(SelectSeq(Seg, LAMBDA e : e = <<"DELAY", 5>>)) = Len(call.args)
       /\ DataValues(Seg) = Frames(hw.mode, call.args)
       /\ (call.args = <<>> => Seg = <<>> /\ hw = HwBefore)
       /\ \A k \in 0..Len(call.args) :
            hw = print(print(Before, SubSeq(call.args, 1, k)),
                       SubSeq(call.args, k + 1, Len(call.args))).hw

C12_Witness ==
    /\ call.op = "print" /\ call.args = <<194, 181, 0>> /\ ~panicked
    /\ hw.mode = Bit4 /\ ~hw.input.some
    /\ Seg = RsHigh \o Pulsed(12) \o Pulsed(2) \o Delay(50) \o Delay(5)
             \o RsHigh \o Pulsed(11) \o Pulsed(5) \o Delay(50) \o Delay(5)
             \o RsHigh \o Pulsed(0) \o Pulsed(0) \o Delay(50) \o Delay(5)

(***************************************************************************)
(* C13: clear() sends the single command byte 0x01 and home() the single   *)
(* command byte 0x02, with register-select low, and each then makes two    *)
(* readiness waits one after the other with no transfer between them:      *)
(* without read support delay 50 then delay 2000; with busy polling two    *)
(* complete poll sequences back to back.                                   *)
(***************************************************************************)
C13_Byte == IF call.op = "clear" THEN 1 ELSE 2

\* the events of the last call after register-select and the transfer of one byte
C13_Rest == SubSeq(Seg, 2 + 4 * Width(hw.mode), Len(Seg))

\* the position in seg of the first event that sets the bus direction to write
C13_FirstRwWrite(seg) == Min({i \in 1..Len(seg) : seg[i] = <<"RW", FALSE>>})

C13_TwoPolls(seg) ==
    /\ \E i \in 1..Len(seg) : seg[i] = <<"RW", FALSE>>
    /\ IsPollSequence(SubSeq(seg, 1, C13_FirstRwWrite(seg)))
    /\ IsPollSequence(SubSeq(seg, C13_FirstRwWrite(seg) + 1, Len(seg)))

C13_ClearHomeWaits ==
    (call.op \in {"clear", "home"} /\ ~panicked)
    => /\ call.sent = <<C13_Byte>>
       /\ Len(Seg) >= 3 + 4 * Width(hw.mode)
       /\ SubSeq(Seg, 1, 1 + 4 * Width(hw.mode)) = RsLow \o Transfer(hw.mode, C13_Byte)
       /\ DataValues(Seg) = Frame(hw.mode, C13_Byte)
       /\ IF hw.input.some
          THEN C13_TwoPolls(C13_Rest)
          ELSE C13_Rest = Delay(50) \o Delay(2000)

(***************************************************************************)
(* C14: the driver carries no state from one call to the next: the events  *)
(* of every public operation, whatever operations were called before it on *)
(* the same Display, are the events the same operation with the same       *)
(* arguments produces on a newly built Display of the same transfer width  *)
(* that reads the same status bytes; so clear() called after clear()       *)
(* repeats the events of the first call.                                   *)
(***************************************************************************)
\* a Display built on hardware that has recorded nothing, with the width and
\* the unread status bytes the last call found
C14_Fresh == Ctx([HwBefore EXCEPT !.commands = <<>>], call.checks)

\* the last call made again on context x
C14_Again(x) ==
    CASE call.op = "init" -> init(x, call.args[1], call.args[2])
      [] call.op = "clear" -> clear(x)
      [] call.op = "home" -> home(x)
      [] call.op = "entry_mode" -> entry_mode(x, call.args[1], call.args[2])
      [] call.op = "display" -> display(x, call.args[1], call.args[2], call.args[3])
      [] call.op = "scroll" -> scroll(x, call.args[1])
      [] call.op = "cursor" -> cursor(x, call.args[1])
      [] call.op = "position" -> position(x, call.args[1], call.args[2])
      [] call.op = "print" -> print(x, call.args)
      [] call.op = "write" -> write(x, call.args[1])
      [] call.op = "upload_character" ->
            upload_character(x, call.args[1], SubSeq(call.args, 2, 9))
      [] OTHER -> x

C14_NoHiddenState ==
    call.op # "new"
    => /\ Seg = C14_Again(C14_Fresh).hw.commands
       /\ panicked = C14_Again(C14_Fresh).panicked
       /\ hw.input = C14_Again(C14_Fresh).hw.input
       /\ call.sent = C14_Again(C14_Fresh).sent
       /\ (call.op = "clear"
               => Seg = RsLow \o Transfer(hw.mode, 1) \o Delay(50) \o Delay(2000))

\* clear() called twice: the same events twice
C14_Witness ==
    /\ nops = 2 /\ call.op = "clear" /\ ~panicked
    /\ call.from = Len(Seg)
    /\ hw.commands = Seg \o Seg
    /\ Seg = RsLow \o Pulsed(0) \o Pulsed(1) \o Delay(50) \o Delay(2000)

(***************************************************************************)
(* C15: every command byte of the public operations is its opcode OR-ed    *)
(* with flags of its own option group only, so that its highest set bit is *)
(* the opcode bit: entry_mode sends 0x04|dir|shift, in 0x04..0x07; display *)
(* sends 0x08|display|cursor|blink, in 0x08..0x0F; cursor sends 0x10 or    *)
(* 0x14; scroll sends 0x18 or 0x1C; the final function-set of init is in   *)
(* 0x20..0x3F; the address command of upload_character is in 0x40..0x78,   *)
(* with bit 7 clear.                                                       *)
(***************************************************************************)
\* the value of the highest set bit of a byte b > 0
C15_HighestBit(b) == Max({p \in {1, 2, 4, 8, 16, 32, 64, 128} : p <= b})

\* the one byte the last call handed to send
C15_Only(b) == call.sent = <<b>>

C15_CommandBytes ==
    /\ (call.op = "entry_mode"
            => /\ C15_Only(4 + call.args[1] + call.args[2])
               /\ call.sent[1] \in 4..7
               /\ C15_HighestBit(call.sent[1]) = 4)
    /\ (call.op = "display"
            => /\ C15_Only(8 + call.args[1] + call.args[2] + call.args[3])
               /\ call.sent[1] \in 8..15
               /\ C15_HighestBit(call.sent[1]) = 8)
    /\ (call.op = "cursor"
            => /\ C15_Only(16 + call.args[1])
               /\ call.sent[1] \in {16, 20}
               /\ C15_HighestBit(call.sent[1]) = 16)
    /\ (call.op = "scroll"
            => /\ C15_Only(24 + call.args[1])
               /\ call.sent[1] \in {24, 28}
               /\ C15_HighestBit(call.sent[1]) = 16)
    /\ (call.op = "init"
            => /\ Len(call.sent) = 4
               /\ call.sent[1] \in 32..63
               /\ C15_HighestBit(call.sent[1]) = 32
               /\ SubSeq(call.sent, 2, 4) = <<8, 1, 6>>)
    /\ (call.op = "upload_character" /\ ~panicked
            => /\ Len(call.sent) = 9
               /\ call.sent[1] \in 64..120
               /\ call.sent[1] < 128
               /\ C15_HighestBit(call.sent[1]) = 64)
    /\ (call.op = "position" /\ ~panicked
            => /\ Len(call.sent) = 1
               /\ C15_HighestBit(call.sent[1]) = 128)
    /\ (call.op = "clear" => C15_Only(1))
    /\ (call.op = "home" => C15_Only(2))

C15_Witness ==
    /\ call.op = "display" /\ call.args = <<DisplayOn, CursorOn, BlinkOn>>
    /\ ~panicked
    /\ call.sent = <<15>>

(***************************************************************************)
(* C16: every byte sent as a command or as data goes out in this order:    *)
(* register-select is set (low for a command, high for a data write), then *)
(* the address-setup wait (no event on this hardware), then the data       *)
(* lines and enable pulses of the byte, then the readiness wait; between   *)
(* the first data-line write of the byte and its last enable-low there is  *)
(* no register-select event.                                               *)
(***************************************************************************)
\* the positions of the data-line writes of the bytes the last call sent
C16_Pos == Last(DataPositions(Seg), Width(hw.mode) * Len(call.sent))

\* the first data-line write of the j-th byte, and its last enable-low
C16_First(j) == C16_Pos[Width(hw.mode) * (j - 1) + 1]

C16_End(j) == C16_Pos[Width(hw.mode) * j] + 3

\* the j-th byte of the last call is data (register-select high)
C16_IsDataWrite(j) ==
    \/ call.op \in {"write", "print", "write_str", "write_char"}
    \/ call.op = "upload_character" /\ j >= 2

\* the readiness wait, a delay of 50, is at position i
C16_WaitStartsAt(i) == At(Seg, i, <<"DELAY", 50>>)

C16_TransferOrder ==
    /\ Len(DataPositions(Seg)) >= Width(hw.mode) * Len(call.sent)
    /\ \A j \in 1..Len(call.sent) :
        /\ At(Seg, C16_First(j) - 1, <<"R/S", C16_IsDataWrite(j)>>)
        /\ SubSeq(Seg, C16_First(j), C16_End(j)) = Transfer(hw.mode, call.sent[j])
        /\ \A i \in C16_First(j)..C16_End(j) : ~IsRs(Seg[i])
        /\ C16_WaitStartsAt(C16_End(j) + 1)

C16_Witness ==
    /\ call.op = "upload_character" /\ call.args[1] = 7 /\ ~panicked
    /\ hw.mode = Bit4 /\ hw.input.some
    /\ Len(call.sent) = 9
    /\ At(Seg, C16_First(1) - 1, <<"R/S", FALSE>>)
    /\ At(Seg, C16_First(9) - 1, <<"R/S", TRUE>>)
    /\ At(Seg, C16_End(9) + 1, <<"DELAY", 50>>)

(***************************************************************************)
(* C17: every value put on the data lines (a nibble, or a whole byte in    *)
(* 8-bit mode) is followed by enable high, a delay of at least 1 us and    *)
(* enable low, in this order; and each value put there by the transfer of  *)
(* a byte gets exactly one rising edge of enable: the transfer of a byte   *)
(* holds as many enable-high events as data-line writes, and enable is     *)
(* never raised while it is high.  (The only other rising edges are the    *)
(* two repeats of init's bootstrap and the strobes of the status reads.)   *)
(***************************************************************************)
IsEnable(e) == e[1] = "EN"

IsRise(e) == e = <<"EN", TRUE>>

\* the number of events of seg that satisfy Test
Count(seg, Test(_)) == Len(SelectSeq(seg, Test))

\* the levels enable is set to, in order
C17_Levels == Values(SelectSeq(Seg, IsEnable))

\* the first data-line write and the last enable-low of the j-th byte sent
C17_First(j) ==
    Last(DataPositions(Seg), Width(hw.mode) * Len(call.sent))[Width(hw.mode) * (j - 1) + 1]

C17_End(j) ==
    Last(DataPositions(Seg), Width(hw.mode) * Len(call.sent))[Width(hw.mode) * j] + 3

\* the rising edges that do not follow a data-line write
C17_OtherRises ==
    (IF call.op = "init" /\ ~panicked THEN 2 ELSE 0) + Count(Seg, IsRead)

C17_OnePulsePerValue ==
    /\ \A i \in 1..Len(Seg) :
        IsData(Seg[i])
        => /\ At(Seg, i + 1, <<"EN", TRUE>>)
           /\ i + 2 <= Len(Seg) /\ IsDelay(Seg[i + 2]) /\ Seg[i + 2][2] >= 1
           /\ At(Seg, i + 3, <<"EN", FALSE>>)
    /\ Len(DataPositions(Seg)) >= Width(hw.mode) * Len(call.sent)
    /\ \A j \in 1..Len(call.sent) :
        LET byte == SubSeq(Seg, C17_First(j), C17_End(j))
        IN  /\ Count(byte, IsRise) = Count(byte, IsData)
            /\ Count(byte, IsData) = Width(hw.mode)
    /\ \A k \in 1..Len(C17_Levels) : C17_Levels[k] = (k % 2 = 1)
    /\ Len(C17_Levels) % 2 = 0
    /\ Count(Seg, IsRise) = Count(Seg, IsData) + C17_OtherRises

C17_Witness ==
    /\ call.op = "write" /\ call.args = <<90>> /\ ~panicked
    /\ hw.mode = Bit4 /\ ~hw.input.some
    /\ SubSeq(Seg, 2, 9)
         = << <<"DATA", 5>>, <<"EN", TRUE>>, <<"DELAY", 1>>, <<"EN", FALSE>>,
              <<"DATA", 10>>, <<"EN", TRUE>>, <<"DELAY", 1>>, <<"EN", FALSE>> >>
    /\ Count(Seg, IsRise) = 2

(***************************************************************************)
(* SpecStuck: one operation on a readable chip that would answer busy to   *)
(* its first reads, up to MaxStuck of them, and then either is idle or has *)
(* no answer left.                                                         *)
(***************************************************************************)
MaxStuck == 5

\* a status byte with the busy flag set in both nibbles
BusyStatus == 136

StuckInputs ==
    {Some([i \in 1..n |-> BusyStatus] \o rest) :
        n \in 0..MaxStuck, rest \in {<<>>, Zeros(PadLen)}}

InitStuck == NewDisplay(StuckInputs)

NextStuck ==
    /\ nops = 0
    /\ \/ \E line \in FunctionLine : CallInit(line, Dots5x8)
       \/ CallClear
       \/ CallHome
       \/ CallEntryMode(EntryRight, NoShift)
       \/ CallDisplay(DisplayOn, CursorOff, BlinkOn)
       \/ CallScroll(Left)
       \/ CallCursor(Right)
       \/ \E col \in {0, 250} : CallPosition(col, 3)
       \/ \E str \in Strs : CallPrint(str)
       \/ CallWrite(97)
       \/ \E location \in {0, 8} : CallUploadCharacter(location, ARROW)

SpecStuck == InitStuck /\ [][NextStuck]_vars

(***************************************************************************)
(* C18: the busy-poll loop has no iteration cap, timeout or error outcome. *)
(* On a readable chip every operation that sends a byte polls, and its     *)
(* first readiness wait on a chip that answers busy N times makes more     *)
(* than N poll cycles; it ends, after exactly N+1 cycles, only on a status *)
(* with the busy flag clear; and while every status read answers busy the  *)
(* wait goes on reading and the operation never returns (here: until the   *)
(* recording hardware has no answer left and aborts the thread in the      *)
(* read after the last answer).                                            *)
(***************************************************************************)
\* the status sampled by the k-th complete poll cycle the unread input allows
C18_Status(k) ==
    Sampled(hw.mode, SubSeq(call.input, (k - 1) * Width(hw.mode) + 1, k * Width(hw.mode)))

\* N: how many poll cycles the chip answers busy from the start of the call
C18_BusyCycles ==
    Max({k \in 0..(Len(call.input) \div Width(hw.mode)) :
            \A i \in 1..k : Bit7(C18_Status(i))})

\* the first readiness wait of the last call: where it sets the bus direction
\* to read, where it sets it back (0: it never does), its status reads
C18_Start == Min({i \in 1..Len(Seg) : Seg[i] = <<"RW", TRUE>>})

C18_Stop == NextRw(Seg, C18_Start)

C18_Reads ==
    Cardinality({i \in (C18_Start + 1)..Len(Seg) :
                    IsRead(Seg[i]) /\ (C18_Stop = 0 \/ i < C18_Stop)})

\* poll cycles started
C18_Cycles == (C18_Reads + Width(hw.mode) - 1) \div Width(hw.mode)

C18_NoPollCap ==
    (hw.input.some /\ Len(call.sent) > 0)
    => /\ \E i \in 1..Len(Seg) : Seg[i] = <<"RW", TRUE>>
       /\ C18_Cycles > C18_BusyCycles
       /\ (C18_Stop # 0
            => /\ Seg[C18_Stop] = <<"RW", FALSE>>
               /\ C18_Cycles = C18_BusyCycles + 1
               /\ C18_Reads = C18_Cycles * Width(hw.mode)
               /\ ~Bit7(C18_Status(C18_Cycles)))
       /\ (C18_BusyCycles = Len(call.input) \div Width(hw.mode)
            => /\ panicked
               /\ C18_Stop = 0
               /\ \A i \in 1..Len(Seg) : Seg[i] # <<"RW", FALSE>>
               /\ C18_Reads = Len(call.input) + 1
               /\ hw.input.v = <<>>
               /\ Last(Seg, 1) = << <<"IS BUSY?">> >>)
       /\ (panicked => Last(Seg, 1) = << <<"IS BUSY?">> >>)

(***************************************************************************)
(* SpecLife: the life of one Display: built on the hardware, then up to    *)
(* MaxOps operations, then the caller's run is over and nothing changes    *)
(* any more.  The Display has no operation that ends its life by giving    *)
(* the hardware back.  Hardware::mode is a method of the hardware:         *)
(* the trait does not tie its answer on one call to its answer on the      *)
(* next, so the answer may change between two operations and, because init *)
(* asks it once and send asks it for every byte, while an operation runs.  *)
(***************************************************************************)
\* how many mode() calls of one operation may pass before the answer changes
MaxAsks == 4

\* the Display on a hardware whose width answer changes after k more mode()
\* calls (0: not while the operation runs)
XChanging(k) == [X EXCEPT !.changes_after = k]

LifeInit(k) == Do("init", <<Line2, Dots5x8>>, init(XChanging(k), Line2, Dots5x8))

LifePrint(k) == Do("print", <<72, 105>>, print(XChanging(k), <<72, 105>>))

LifeUploadCharacter(k) ==
    Do("upload_character", <<3>> \o ARROW, upload_character(XChanging(k), 3, ARROW))

\* the hardware's width query answers the other width from now on
ModeAnswerChanges ==
    /\ ~panicked
    /\ ~ended
    /\ \E m \in FunctionMode \ {hw.mode} : hw' = [hw EXCEPT !.mode = m]
    /\ UNCHANGED <<panicked, call, nops, ended>>

\* ops(&mut display) has returned: the run is over with the Display as the
\* last operation left it
RunEnds ==
    /\ ~panicked
    /\ ~ended
    /\ ended' = TRUE
    /\ UNCHANGED <<hw, panicked, call, nops>>

InitLife == NewDisplay(IdleInputs)

NextLife ==
    \/ ModeAnswerChanges
    \/ RunEnds
    \/ /\ nops < MaxOps
       /\ ~ended
       /\ \/ \E k \in 0..MaxAsks : LifeInit(k)
          \/ CallClear
          \/ CallHome
          \/ CallEntryMode(EntryRight, Shift)
          \/ CallDisplay(DisplayOn, CursorOff, BlinkOff)
          \/ CallScroll(Left)
          \/ CallCursor(Right)
          \/ CallPosition(7, 2)
          \/ \E k \in 0..MaxAsks : LifePrint(k)
          \/ CallWrite(97)
          \/ \E k \in 0..MaxAsks : LifeUploadCharacter(k)

SpecLife == InitLife /\ [][NextLife]_vars

(***************************************************************************)
(* C19: the transfer width is fixed for the lifetime of a Display: every   *)
(* byte sent through one Display, by init and by every later operation, is *)
(* framed the same way (one pulse per byte, or a nibble pair per byte),    *)
(* even when the hardware's width query answers differently on a later     *)
(* call: an operation frames all its bytes one way, and an operation that  *)
(* sends bytes frames them as the operation before it on the same Display  *)
(* did.                                                                    *)
(***************************************************************************)
\* the last call framed all its bytes one way: one data-line write per byte
\* or two (init: its bootstrap and its four bytes in the same width)
C19_OneFraming ==
    (call.sent # <<>> /\ ~panicked)
    => IF call.op = "init"
       THEN Len(DataValues(Seg)) \in {5, 10}
       ELSE Len(DataValues(Seg)) \in {Len(call.sent), 2 * Len(call.sent)}

\* data-line writes per byte sent by the last call (init puts one value on
\* the data lines in its 8-bit bootstrap and two in its 4-bit bootstrap, and
\* then sends four bytes)
C19_PulsesPerByte ==
    IF call.op = "init"
    THEN Len(DataValues(Seg)) \div 5
    ELSE Len(DataValues(Seg)) \div Len(call.sent)

C19_SameFraming ==
    (call.sent # <<>> /\ call'.sent # <<>> /\ call' # call /\ ~panicked')
    => C19_PulsesPerByte' = C19_PulsesPerByte

C19_WidthFixed == [](C19_OneFraming) /\ [][C19_SameFraming]_vars

(***************************************************************************)
(* C20: building a Display on a hardware object and releasing it perform   *)
(* no hardware operation: the hardware has recorded nothing when the       *)
(* Display is built, every operation appends exactly its own events to     *)
(* what was recorded before, and when the caller's run is over the Display *)
(* has been released, the release giving back the hardware as the last     *)
(* operation left it, so that the trace given back is the events of the    *)
(* operations called, in call order.                                       *)
(***************************************************************************)
\* a Display built on hardware that has recorded nothing, answers width m and
\* changes its answer after k more mode() calls, with the unread status bytes
\* the last call found
C20_Fresh(m, k) ==
    [Ctx([HwBefore EXCEPT !.commands = <<>>, !.mode = m], call.checks)
        EXCEPT !.changes_after = k]

\* what the hardware holds in every state of a Display's life
C20_State ==
    /\ (call.op = "new" => hw.commands = <<>> /\ nops = 0)
    /\ (call.op = "unwrap"
            => /\ Seg = <<>>
               /\ hw.input.v = call.input
               /\ ~panicked)
    /\ (call.op \notin {"new", "unwrap"}
            => \E m \in FunctionMode, k \in 0..MaxAsks :
                    Seg = C14_Again(C20_Fresh(m, k)).hw.commands)

\* what a step of a Display's life does to the hardware: the release leaves
\* it as it is, an operation appends to what it has recorded
C20_Step ==
    /\ (call'.op = "unwrap" => hw' = hw /\ panicked' = panicked)
    /\ (call' # call
            => /\ call'.from = Len(hw.commands)
               /\ Len(hw'.commands) >= Len(hw.commands)
               /\ SubSeq(hw'.commands, 1, Len(hw.commands)) = hw.commands)
    /\ (call' = call => hw'.commands = hw.commands /\ hw'.input = hw.input)

\* a run that is over has released its Display
C20_Released == ended => call.op = "unwrap"

C20_NewAndUnwrap ==
    [](C20_State) /\ [][C20_Step]_vars /\ [](C20_Released)

(***************************************************************************)
(* C21: what init does after its final function-set command is what the    *)
(* three public calls display(DisplayOff, CursorOff, BlinkOff), clear()    *)
(* and entry_mode(EntryRight, NoShift) do: the events of init after the    *)
(* readiness wait of the function-set are the events of these three calls  *)
(* made one after the other, in both transfer widths.                      *)
(***************************************************************************)
\* where the events of init after the final function-set start: at the
\* register-select write of the second byte init sends
C21_Cut == C16_First(2) - 1

\* the Display as the final function-set of init left it: the events recorded
\* up to the cut, and the status bytes not read by then
C21_AfterFunctionSet ==
    LET reads == ReadsBefore(Seg, C21_Cut)
    IN  Ctx([commands |-> SubSeq(hw.commands, 1, call.from + C21_Cut - 1),
             input |-> [some |-> hw.input.some,
                        v |-> SubSeq(call.input, reads + 1, Len(call.input))],
             mode |-> hw.mode],
            FALSE)

\* the three public calls, made on context x
C21_ThreeCalls(x) ==
    entry_mode(clear(display(x, DisplayOff, CursorOff, BlinkOff)), EntryRight, NoShift)

C21_InitTail ==
    (call.op = "init" /\ ~panicked)
    => /\ Len(call.sent) = 4
       /\ C21_Cut > 1
       /\ SubSeq(Seg, C21_Cut, Len(Seg))
            = Added(C21_AfterFunctionSet, C21_ThreeCalls(C21_AfterFunctionSet))
       /\ hw = C21_ThreeCalls(C21_AfterFunctionSet).hw
       /\ SubSeq(call.sent, 2, 4) = C21_ThreeCalls(C21_AfterFunctionSet).sent

C21_Witness ==
    /\ call.op = "init" /\ call.args = <<Line1, Dots5x8>> /\ ~panicked
    /\ hw.mode = Bit4 /\ ~hw.input.some
    /\ SubSeq(Seg, C21_Cut, Len(Seg))
         = RsLow \o Pulsed(0) \o Pulsed(8) \o Delay(50)
           \o RsLow \o Pulsed(0) \o Pulsed(1) \o Delay(50) \o Delay(2000)
           \o RsLow \o Pulsed(0) \o Pulsed(6) \o Delay(50)

(***************************************************************************)
(* C22: after each signal change the driver makes (register-select,        *)
(* enable, data lines) the hardware's commit operation is invoked before   *)
(* the driver delays or relies on the signal: a commit comes between every *)
(* signal change and the next delay, and between every data-line write and *)
(* the next raising of enable.                                             *)
(***************************************************************************)
IsSignalChange(e) == e[1] \in {"R/S", "EN", "DATA"}

\* a call of the hardware's commit operation (the driver makes none: the
\* Hardware trait has the operations rs, enable, data, wait_address and mode)
IsCommit(e) == e[1] = "COMMIT"

\* a commit is recorded after position i and before position k
C22_CommitBetween(i, k) == \E c \in (i + 1)..(k - 1) : IsCommit(Seg[c])

C22_CommitAfterChange ==
    /\ \A i \in 1..Len(Seg) : \A k \in (i + 1)..Len(Seg) :
        (IsSignalChange(Seg[i]) /\ IsDelay(Seg[k])) => C22_CommitBetween(i, k)
    /\ \A i \in 1..Len(Seg) : \A k \in (i + 1)..Len(Seg) :
        (IsData(Seg[i]) /\ IsRise(Seg[k])) => C22_CommitBetween(i, k)

(***************************************************************************)
(* C23: used as a formatting target, write_str(s) returns Ok for every     *)
(* string s, and its events are exactly the events of print(s).            *)
(***************************************************************************)
C23_WriteStrIsPrint ==
    call.op = "write_str"
    => /\ ~panicked
       /\ call.result = "Ok"
       /\ Seg = Added(Before, print(Before, call.args))
       /\ hw = print(Before, call.args).hw
       /\ call.sent = call.args
       /\ Seg = C12_WriteTraces(Before, call.args)

C23_Witness ==
    /\ call.op = "write_str" /\ call.args = <<194, 181, 0>> /\ ~panicked
    /\ call.result = "Ok"
    /\ hw.mode = Bit8 /\ ~hw.input.some
    /\ Seg = RsHigh \o Pulsed(194) \o Delay(50) \o Delay(5)
             \o RsHigh \o Pulsed(181) \o Delay(50) \o Delay(5)
             \o RsHigh \o Pulsed(0) \o Delay(50) \o Delay(5)

(***************************************************************************)
(* C24: with busy polling every readiness wait (one follows every byte     *)
(* sent) sets register-select low, then the bus direction to read, then    *)
(* runs its poll cycles, then sets the bus direction to write.  So over    *)
(* every sequence of operations on hardware that supports reading the      *)
(* data lines are never written while the bus direction is read, the       *)
(* status is only read while it is read, and the bus direction is write    *)
(* whenever an operation has returned.                                     *)
(***************************************************************************)
\* the waits of the last call that set the bus direction to read
C24_Waits == Count(Seg, LAMBDA e : e = <<"RW", TRUE>>)

\* the bus direction is read just before position i of everything recorded
\* (it is write until the first RW event)
C24_ReadingAt(i) ==
    LET rws == {r \in 1..(i - 1) : IsRw(hw.commands[r])}
    IN  rws # {} /\ hw.commands[Max(rws)][2]

\* the wait that sets the bus direction to read at position p
C24_Wait(p) ==
    LET q == NextRw(hw.commands, p)
    IN  /\ At(hw.commands, p - 1, <<"R/S", FALSE>>)
        /\ (~panicked => q # 0)
        /\ (q # 0 => IsPollSequence(SubSeq(hw.commands, p - 1, q)))

C24_BusDirection ==
    hw.input.some
    => /\ (~panicked => C24_Waits >= Len(call.sent))
       /\ \A p \in 1..Len(hw.commands) :
            hw.commands[p] = <<"RW", TRUE>> => C24_Wait(p)
       /\ \A i \in 1..Len(hw.commands) :
            /\ (IsData(hw.commands[i]) => ~C24_ReadingAt(i))
            /\ (IsRead(hw.commands[i]) => C24_ReadingAt(i))
            /\ (hw.commands[i] = <<"RW", FALSE>> => C24_ReadingAt(i))
       /\ (~panicked => ~C24_ReadingAt(Len(hw.commands) + 1))

(***************************************************************************)
(* C25: on hardware that supports reading every readiness wait makes at    *)
(* least one busy-poll cycle.  In 4-bit mode a cycle is exactly two enable *)
(* strobes with                                                            *)
(* one read inside each (enable high, delay 1, read, delay 1, enable low), *)
(* the first read being the high nibble: the busy flag is bit 3 of the     *)
(* first nibble read (bit 7 of high<<4 | low), and the second nibble is    *)
(* read also when the first shows busy.  In 8-bit mode a cycle is one      *)
(* strobe with one read, and the busy flag is bit 7 of the byte read.      *)
(***************************************************************************)
\* bit 3 of a nibble read
Bit3(n) == (n \div 8) % 2 = 1

\* the busy flag of the poll cycle whose first read takes the i-th status byte
\* the last call found
C25_BusyFlag(i) ==
    IF hw.mode = Bit8 THEN Bit7(call.input[i]) ELSE Bit3(call.input[i])

\* the poll that sets the bus direction to read at position p of the last call
C25_Poll(p) ==
    LET q == NextRw(Seg, p)
        w == Width(hw.mode)
        before == ReadsBefore(Seg, p)
        n == ReadsBefore(Seg, q) - before
        cycles == n \div w
    IN  /\ q > p
        /\ n = cycles * w
        /\ cycles >= 1
        /\ SubSeq(Seg, p + 1, q - 1) = Repeat(ReadCycle, n)
        /\ q - p - 1 = 5 * w * cycles
        /\ \A k \in 1..(cycles - 1) : C25_BusyFlag(before + (k - 1) * w + 1)
        /\ ~C25_BusyFlag(before + (cycles - 1) * w + 1)
        /\ (hw.mode = Bit4 =>
                \A k \in 1..cycles :
                    C25_BusyFlag(before + (k - 1) * w + 1)
                    = Bit7(Sampled(Bit4, SubSeq(call.input, before + (k - 1) * w + 1,
                                                before + k * w))))

C25_PollCycle ==
    (hw.input.some /\ ~panicked /\ call.op # "new")
    => /\ Count(Seg, IsRead) >= Width(hw.mode) * Len(call.sent)
       /\ \A p \in 1..Len(Seg) : Seg[p] = <<"RW", TRUE>> => C25_Poll(p)
       /\ Len(call.input) - Len(hw.input.v) = Count(Seg, IsRead)
       /\ hw.input.v = SubSeq(call.input, Count(Seg, IsRead) + 1, Len(call.input))

(***************************************************************************)
(* C26: during init the busy flag is not polled before the third           *)
(* function-set repeat has been pulsed: the waits after the first and the  *)
(* second repeat are the fixed delays 4500 and 150 also on hardware that   *)
(* supports reading, no read-side event is among them, and the first       *)
(* readiness wait (delay 50) comes right after the third pulse, in both    *)
(* transfer widths.                                                        *)
(***************************************************************************)
\* the value of the first function-set: the whole byte, or its high nibble
C26_First == IF hw.mode = Bit8 THEN 60 ELSE 3

\* the events of init up to the third pulse
C26_Repeats ==
    RsLow \o Pulsed(C26_First) \o Delay(4500) \o Pulse \o Delay(150) \o Pulse

C26_InitNoEarlyPoll ==
    call.op = "init"
    => /\ Len(Seg) > Len(C26_Repeats)
       /\ SubSeq(Seg, 1, Len(C26_Repeats)) = C26_Repeats
       /\ C16_WaitStartsAt(Len(C26_Repeats) + 1)
       /\ \A i \in 1..Len(C26_Repeats) : ~IsRw(Seg[i]) /\ ~IsRead(Seg[i])
       /\ \A i \in 1..Len(Seg) :
            (IsDelay(Seg[i]) /\ Seg[i][2] \in {4500, 150}) => i <= Len(C26_Repeats)
       /\ Min({i \in 1..Len(Seg) : Seg[i] = <<"DELAY", 50>>}) = Len(C26_Repeats) + 1

\* init on a readable chip whose first status bytes are busy
C26_Witness ==
    /\ call.op = "init" /\ hw.mode = Bit8 /\ ~panicked
    /\ hw.input.some /\ Len(call.input) >= 2 /\ SubSeq(call.input, 1, 2) = <<128, 0>>
    /\ SubSeq(Seg, 1, 15)
         = RsLow \o Pulsed(60) \o Delay(4500) \o Pulse \o Delay(150) \o Pulse
           \o Delay(50) \o RsLow

(***************************************************************************)
(* C27: the readiness strategy is never mixed: on hardware that supports   *)
(* reading no readiness wait sleeps its fallback duration, so over every   *)
(* sequence of operations the only delays are 1 (enable strobe and poll    *)
(* timing), 5 (after a data write), 150 and 4500 (init); delays of 50 and  *)
(* of 2000 never occur.                                                    *)
(***************************************************************************)
\* the durations of all the delays recorded so far
C27_Durations == {hw.commands[i][2] : i \in {j \in 1..Len(hw.commands) : IsDelay(hw.commands[j])}}

C27_NoFallbackDelay ==
    hw.input.some
    => /\ C27_Durations \subseteq {1, 5, 150, 4500}
       /\ 50 \notin C27_Durations
       /\ 2000 \notin C27_Durations

(***************************************************************************)
(* C28: over every sequence of operations, every complete byte transfer    *)
(* (command or data) is followed by at least one readiness wait before the *)
(* data lines are written for the next byte transfer: two byte transfers   *)
(* never come back to back.                                                *)
(***************************************************************************)
\* a readiness wait is this event: the delay of wait_ready_default
IsWaitDone(e) == e = <<"DELAY", 50>>

\* the positions of all data-line writes recorded so far
C28_Data == DataPositions(hw.commands)

\* the data-line writes at positions i < k are the two nibbles of one byte
C28_SameByte(i, k) ==
    /\ hw.mode = Bit4
    /\ k = i + 4
    /\ SubSeq(hw.commands, i + 1, i + 3) = Pulse

\* a readiness wait is over between positions i and k
C28_WaitBetween(i, k) == \E t \in (i + 1)..(k - 1) : IsWaitDone(hw.commands[t])

C28_WaitBetweenTransfers ==
    /\ \A n \in 1..(Len(C28_Data) - 1) :
        \/ C28_SameByte(C28_Data[n], C28_Data[n + 1])
        \/ C28_WaitBetween(C28_Data[n], C28_Data[n + 1])
    /\ \A j \in 1..Len(call.sent) :
        /\ C16_WaitStartsAt(C16_End(j) + 1)
        /\ (j < Len(call.sent) =>
                \E t \in (C16_End(j) + 1)..(C16_First(j + 1) - 1) : IsWaitDone(Seg[t]))
        /\ (j = Len(call.sent) /\ ~panicked =>
                \E t \in (C16_End(j) + 1)..Len(Seg) : IsWaitDone(Seg[t]))
    /\ (call.from > 0 /\ C28_Data # <<>> /\ C28_Data[1] <= call.from
            => C28_WaitBetween(Max({i \in 1..call.from : IsData(hw.commands[i])}),
                               call.from + 1))

\* print("Hi") after a cursor shift, 4-bit mode, readable hardware: three byte
\* transfers, a wait after each
C28_Witness ==
    /\ nops = 2 /\ call.op = "print" /\ call.from > 0 /\ ~panicked
    /\ hw.mode = Bit4 /\ hw.input.some
    /\ Len(C28_Data) = 6
    /\ Count(hw.commands, IsWaitDone) = 3

(***************************************************************************)
(* C29: in 4-bit mode the two nibbles of a byte go out contiguously: the   *)
(* data-line write of the low nibble is the event right after the          *)
(* enable-low of the high nibble, with no readiness wait, no delay and no  *)
(* register-select change between them; the readiness wait follows the     *)
(* pair, one per byte and not one per nibble (clear and home then make     *)
(* their second, long wait).                                               *)
(***************************************************************************)
\* the events after the j-th byte sent up to the next byte sent (or the end)
C29_Gap(j) ==
    SubSeq(Seg, C16_End(j) + 1,
           IF j < Len(call.sent) THEN C16_First(j + 1) - 1 ELSE Len(Seg))

\* the j-th byte sent is the command of a clear or a home
C29_IsClearOrHome(j) == ~C16_IsDataWrite(j) /\ call.sent[j] \in {ClearDisplay, ReturnHome}

\* the waits after the j-th byte sent: one, and one more after clear and home
C29_Waits(j) == IF C29_IsClearOrHome(j) THEN 2 ELSE 1

C29_NibblesContiguous ==
    (hw.mode = Bit4 /\ ~panicked)
    => /\ Len(DataPositions(Seg)) >= 2 * Len(call.sent)
       /\ \A j \in 1..Len(call.sent) :
            /\ SubSeq(Seg, C16_First(j), C16_First(j) + 7)
                 = Pulsed(call.sent[j] \div 16) \o Pulsed(call.sent[j] % 16)
            /\ Seg[C16_First(j) + 3] = <<"EN", FALSE>>
            /\ Seg[C16_First(j) + 4] = <<"DATA", call.sent[j] % 16>>
            /\ \A i \in C16_First(j)..(C16_First(j) + 7) :
                    /\ ~IsRs(Seg[i]) /\ ~IsRw(Seg[i]) /\ ~IsRead(Seg[i])
                    /\ (IsDelay(Seg[i]) => Seg[i][2] = 1)
            /\ Count(C29_Gap(j), LAMBDA e : e = <<"DELAY", 50>>) = 1
            /\ Count(C29_Gap(j), LAMBDA e : e = <<"DELAY", 2000>>) = C29_Waits(j) - 1
            /\ Count(C29_Gap(j), IsRw) = 0

C29_Witness ==
    /\ call.op = "position" /\ call.args = <<7, 2>> /\ ~panicked
    /\ hw.mode = Bit4 /\ ~hw.input.some
    /\ Seg = RsLow \o Pulsed(9) \o Pulsed(11) \o Delay(50)

(***************************************************************************)
(* C30: the enable line is low between operations.  Over the whole trace   *)
(* of the hardware the enable events alternate strictly, starting with a   *)
(* high: every enable-high is followed by its enable-low before any        *)
(* data-line write or register-select change, so both only change while    *)
(* enable is low; when an operation has returned, the last enable event    *)
(* is a low.                                                               *)
(***************************************************************************)
\* the number of enable events among the first i - 1 events of the trace
C30_EnablesBefore(i) == Count(SubSeq(hw.commands, 1, i - 1), IsEnable)

\* enable is low just before the i-th event of the trace
C30_LowBefore(i) == C30_EnablesBefore(i) % 2 = 0

C30_EnableLowBetween ==
    /\ \A i \in 1..Len(hw.commands) :
         LET e == hw.commands[i] IN
         /\ IsEnable(e) => (e[2] <=> C30_LowBefore(i))
         /\ (IsData(e) \/ IsRs(e)) => C30_LowBefore(i)
    /\ ~panicked => C30_LowBefore(Len(hw.commands) + 1)

C30_Witness ==
    /\ nops = 2 /\ call.op = "write" /\ call.from > 0 /\ ~panicked
    /\ hw.mode = Bit4 /\ hw.input.some
    /\ Count(hw.commands, IsEnable) >= 12
    /\ Count(hw.commands, IsRs) >= 4

(***************************************************************************)
(* C31: in 4-bit mode every value the driver places on the data lines is   *)
(* at most 15 (0x0F), for every operation and every argument value; the    *)
(* bootstrap nibbles 3 and 2 of init are among them.                       *)
(***************************************************************************)
C31_NibblesOnly ==
    hw.mode = Bit4
    => \A i \in 1..Len(hw.commands) :
          IsData(hw.commands[i]) => hw.commands[i][2] \in 0..15

C31_Witness ==
    /\ call.op = "init" /\ call.args = <<Line2, Dots5x10>> /\ ~panicked
    /\ hw.mode = Bit4
    /\ SubSeq(DataValues(Seg), 1, 4) = <<3, 2, 2, 12>>
    /\ Len(DataValues(Seg)) = 10

(***************************************************************************)
(* C32: the bootstrap part of init does not depend on line and dots.  An   *)
(* init made with any other (line, dots) on the same hardware, in the      *)
(* same transfer width, gives a trace of the same length that is equal up  *)
(* to the final function-set command and differs, if the arguments         *)
(* differ, only in the values of the data-line writes of that              *)
(* function-set byte; in the three repeats the data lines are driven       *)
(* once, the second and the third repeat being enable pulses alone.        *)
(***************************************************************************)
\* the events of init(line, dots) called where the last call was made
C32_Other(line, dots) == Added(Before, init(Before, line, dots))

\* the data-line writes of the final function-set byte, the first byte sent
C32_FunctionSetData == {C16_Pos[k] : k \in 1..Width(hw.mode)}

\* the positions where two traces of the same length differ
C32_Diff(s, t) == {i \in 1..Len(s) : s[i] # t[i]}

C32_BootstrapIndependent ==
    (call.op = "init" /\ ~panicked)
    => /\ Len(call.sent) = 4
       /\ Count(SubSeq(Seg, 1, Len(C26_Repeats)), IsData) = 1
       /\ Count(SubSeq(Seg, 1, Len(C26_Repeats)), IsRise) = 3
       /\ SubSeq(Seg, 7, 9) = Pulse
       /\ SubSeq(Seg, 11, 13) = Pulse
       /\ \A line \in FunctionLine, dots \in FunctionDots :
            LET other == C32_Other(line, dots) IN
            /\ Len(other) = Len(Seg)
            /\ SubSeq(other, 1, C16_First(1) - 1) = SubSeq(Seg, 1, C16_First(1) - 1)
            /\ C32_Diff(Seg, other) \subseteq C32_FunctionSetData
            /\ \A i \in C32_Diff(Seg, other) : IsData(Seg[i]) /\ IsData(other[i])
            /\ (<<line, dots>> # call.args <=> C32_Diff(Seg, other) # {})

C32_Witness ==
    /\ call.op = "init" /\ call.args = <<Line1, Dots5x8>> /\ ~panicked
    /\ hw.mode = Bit8 /\ ~hw.input.some
    /\ C16_First(1) = 16
    /\ Seg[16] = <<"DATA", 48>>
    /\ C32_Other(Line2, Dots5x10)[16] = <<"DATA", 60>>
    /\ C32_Diff(Seg, C32_Other(Line2, Dots5x10)) = {16}

(***************************************************************************)
(* C33: every operation terminates.  The number of events of an operation  *)
(* is fixed by the operation and its arguments (and the transfer width of  *)
(* the hardware); for print it is the byte length of the string times the  *)
(* events of one write.  This is so on hardware without read support and   *)
(* on hardware that supports reading, whatever its status bytes are: an    *)
(* operation returns without reading one of them.                          *)
(***************************************************************************)
\* the bytes the last call hands to send
C33_Bytes ==
    CASE call.op = "init" -> 4
      [] call.op \in {"print", "write_str"} -> Len(call.args)
      [] call.op = "upload_character" -> 9
      [] call.op = "new" -> 0
      [] OTHER -> 1

\* the readiness waits of the last call: one per byte, the long wait of clear
\* and home, and in init the waits of the bootstrap and the long wait of clear
C33_Waits ==
    C33_Bytes
    + (IF call.op \in {"clear", "home"} THEN 1 ELSE 0)
    + (IF call.op = "init" THEN Width(hw.mode) + 1 ELSE 0)

\* the events of one write apart from its wait: register-select, and a
\* data-line write with its pulse for every transfer
C33_PerByte == 1 + 4 * Width(hw.mode)

\* the data writes of the last call, each ending with the 5 us delay for the
\* address counter
C33_DataWrites ==
    CASE call.op \in {"write", "print", "write_str"} -> C33_Bytes
      [] call.op = "upload_character" -> 8
      [] OTHER -> 0

\* the events of the last call apart from its waits; the bootstrap of init is
\* register-select, the pulsed first nibble or byte, two delays, two pulses
\* and in 4-bit mode the pulsed switch nibble
C33_Strobes ==
    C33_Bytes * C33_PerByte
    + C33_DataWrites
    + (IF call.op = "init" THEN 9 + 4 * Width(hw.mode) ELSE 0)

\* the last call ended in the panic of an argument check, before any event
C33_ArgumentPanic ==
    /\ panicked
    /\ Seg = <<>>
    /\ \/ call.op = "position" /\ call.checks
             /\ call.args[1] + position_offset(call.args[2]) > 255
       \/ call.op = "upload_character" /\ call.args[1] > 7

C33_Terminates ==
    /\ ~panicked
         => /\ Len(Seg) = C33_Strobes + C33_Waits
            /\ \A s \in Strs :
                 Len(Added(X, print(X, s))) = Len(s) * (C33_PerByte + 2)
    /\ panicked => C33_ArgumentPanic
    /\ call.op # "new" => hw.input.v = call.input

\* print("Hi") in 4-bit mode on a readable chip whose first status is busy
C33_Witness ==
    /\ call.op = "print" /\ call.args = <<72, 105>> /\ ~panicked
    /\ hw.mode = Bit4 /\ hw.input.some
    /\ SubSeq(call.input, 1, 2) = <<8, 0>>
    /\ hw.input.v = call.input
    /\ Len(Seg) = 2 * 11
====
